---- MODULE Spec2Model ----
(***************************************************************************)
(* AUTO-ML-AGENT backend: the training entry point (main.py train_model),  *)
(* the Intent Extractor (agents.py process_user_query), the Training       *)
(* Orchestrator (agents.py train_tabular_model), the Validator, the        *)
(* Result Normalizer and the Model Registry (utils.py), and the prediction *)
(* and listing entry points (main.py predict, list_models).                *)
(*                                                                         *)
(* Text is a sequence of one-character strings, so that lower(), split(),  *)
(* strip() and "in" are computed character by character as Python does.    *)
(* The AutoML library and the LLM agent are external: what they return or  *)
(* raise is drawn from small sets in the actions.                          *)
(***************************************************************************)
EXTENDS Integers, Sequences, FiniteSets, TLC

VARIABLES
    models,   \* the entries of MODELS_DIR: records [name, is_dir]
    now,      \* the wall clock, in seconds (pd.Timestamp.now())
    pc,       \* "idle": no request in progress; "done": a request was answered
    req,      \* the request being answered and the dataset it uploaded
    orc,      \* the Training Orchestrator call made for the request, if any
    resp,     \* the response sent to the caller
    query,    \* the text given to the Intent Extractor
    intent    \* what the Intent Extractor derived from query

vars == <<models, now, pc, req, orc, resp, query, intent>>

----------------------------------------------------------------------------
(* Bounds of the model *)

\* the longest prompt, in chunks of PromptChunks, the Intent Extractor is run on
MaxPromptChunks == 4

----------------------------------------------------------------------------
(* Text *)

kw_predict        == <<"p","r","e","d","i","c","t">>
kw_classification == <<"c","l","a","s","s","i","f","i","c","a","t","i","o","n">>
kw_regression     == <<"r","e","g","r","e","s","s","i","o","n">>
kw_predict_value  == <<"p","r","e","d","i","c","t"," ","v","a","l","u","e">>

\* str.lower() on the characters the model's texts are made of
char_lower(c) ==
    CASE c = "P" -> "p"
      [] c = "Y" -> "y"
      [] c = "C" -> "c"
      [] OTHER   -> c

str_lower(s) == [i \in 1..Len(s) |-> char_lower(s[i])]

\* sub occurs in s at position i
occurs_at(s, sub, i) ==
    /\ i >= 1
    /\ i + Len(sub) - 1 <= Len(s)
    /\ \A j \in 1..Len(sub) : s[i + j - 1] = sub[j]

\* Python's "sub in s"
str_contains(s, sub) == \E i \in 1..(Len(s) + 1) : occurs_at(s, sub, i)

\* the first position >= from at which sub occurs in s, 0 if there is none
str_find(s, sub, from) ==
    LET hits == {i \in from..(Len(s) + 1) : occurs_at(s, sub, i)}
    IN  IF hits = {} THEN 0 ELSE CHOOSE i \in hits : \A k \in hits : i <= k

\* Python's s.split(sep) for a non-empty sep: the parts between the
\* non-overlapping occurrences of sep, found left to right
RECURSIVE str_split(_, _)
str_split(s, sep) ==
    LET at == str_find(s, sep, 1)
    IN  IF at = 0
        THEN <<s>>
        ELSE <<SubSeq(s, 1, at - 1)>>
             \o str_split(SubSeq(s, at + Len(sep), Len(s)), sep)

\* Python's s.strip(chars): chars removed from both ends
str_strip(s, chars) ==
    LET keep == {i \in 1..Len(s) : s[i] \notin chars}
    IN  IF keep = {} THEN <<>>
        ELSE LET lo == CHOOSE i \in keep : \A k \in keep : i <= k
                 hi == CHOOSE i \in keep : \A k \in keep : i >= k
             IN  SubSeq(s, lo, hi)

Whitespace == {" "}

\* Python's s.split(): the maximal runs of non-whitespace characters
RECURSIVE str_words(_)
str_words(s) ==
    LET t == str_strip(s, Whitespace)
    IN  IF t = <<>> THEN <<>>
        ELSE LET gaps == {i \in 1..Len(t) : t[i] \in Whitespace}
                 stop == IF gaps = {} THEN Len(t) + 1
                         ELSE CHOOSE i \in gaps : \A k \in gaps : i <= k
             IN  <<SubSeq(t, 1, stop - 1)>> \o str_words(SubSeq(t, stop, Len(t)))

----------------------------------------------------------------------------
(* Intent Extractor: agents.py process_user_query, lines 159-175 *)

\* Python's None for a target, and a target that is a text (possibly "")
NoTarget     == [given |-> FALSE, name |-> <<>>]
Target(name) == [given |-> TRUE, name |-> name]

\* Python truthiness of an optional text: None and "" are false
truthy(t) == t.given /\ t.name # <<>>

StripChars == {".", ",", " "}

extract_target(q) ==
    IF str_contains(str_lower(q), kw_predict)
    THEN LET predict_parts == str_split(str_lower(q), kw_predict)
         IN  IF Len(predict_parts) > 1
             THEN LET target_part == str_strip(predict_parts[2], Whitespace)
                      words       == str_words(target_part)
                  IN  IF words # <<>>
                      THEN Target(str_strip(words[1], StripChars))
                      ELSE NoTarget
             ELSE NoTarget
    ELSE NoTarget

\* a slip of lines 172-175: the regression words are looked for first
extract_task_type_regression_first(q) ==
    IF \/ str_contains(str_lower(q), kw_regression)
       \/ str_contains(str_lower(q), kw_predict_value)
    THEN "regression"
    ELSE IF str_contains(str_lower(q), kw_classification) THEN "classification"
         ELSE "None"

extract_task_type(q) ==
    IF str_contains(str_lower(q), kw_classification) THEN "classification"
    ELSE IF \/ str_contains(str_lower(q), kw_regression)
            \/ str_contains(str_lower(q), kw_predict_value)
         THEN "regression"
         ELSE "None"

NoIntent == [target |-> NoTarget, task_type |-> "None"]

extract_intent(q) == [target |-> extract_target(q), task_type |-> extract_task_type(q)]

----------------------------------------------------------------------------
(* Prompts the Intent Extractor is run on: every concatenation of at most  *)
(* MaxPromptChunks chunks                                                  *)

PromptChunks ==
    { kw_predict, <<"P","r","e","d","i","c","t">>, <<" ">>, <<".">>, <<"y">>, <<"Y">>,
      kw_classification, <<"C","l","a","s","s","i","f","i","c","a","t","i","o","n">>,
      kw_regression, <<"v","a","l","u","e">> }

RECURSIVE PromptsOf(_)
PromptsOf(n) ==
    IF n = 0 THEN {<<>>}
    ELSE LET shorter == PromptsOf(n - 1)
         IN  shorter \cup {p \o c : p \in shorter, c \in PromptChunks}

Prompts == PromptsOf(MaxPromptChunks)

----------------------------------------------------------------------------
(* Datasets.  A dataset is what pd.read_csv returns for the uploaded file: *)
(* its row count, its ordered column names and, for each column, whether   *)
(* its dtype is numeric, its nunique() and whether it holds a missing      *)
(* value.                                                                  *)

\* utils.py validate_dataset: "if len(df) < 10"
MinRows == 10
\* agents.py train_tabular_model and utils.py infer_task_type: 10 distinct values
UniqueLimit == 10
\* a row count for which UniqueLimit + 1 distinct values are at most 5% of the rows
ManyRows == 220

col_x == <<"x">>
col_y == <<"y">>
col_n == <<"n">>

RowCounts    == {0, MinRows - 1, MinRows, UniqueLimit + 1, ManyRows}
UniqueCounts == {0, 2, UniqueLimit, UniqueLimit + 1}

\* the statistics a column of r rows can have: nunique() counts the distinct
\* non-missing values, so a missing value leaves at most r - 1 of them
\* (a column with rows holds a value)
ColumnStats(r) ==
    { st \in [numeric : BOOLEAN, nunique : UniqueCounts, hasna : BOOLEAN] :
        /\ st.nunique <= r
        /\ st.hasna => st.nunique < r
        /\ (st.nunique = 0) <=> (r = 0) }

\* a feature column: numeric, every value distinct, nothing missing
FeatureStats(r) == [numeric |-> TRUE, nunique |-> r, hasna |-> FALSE]

DatasetsOf(r) ==
    { [rows |-> r, columns |-> <<col_x, col_y>>,
       stats |-> [c \in {col_x, col_y} |-> IF c = col_y THEN st ELSE FeatureStats(r)]] :
         st \in ColumnStats(r) }

Datasets == UNION {DatasetsOf(r) : r \in RowCounts}

has_column(df, name) == \E i \in 1..Len(df.columns) : df.columns[i] = name

\* df.empty: an axis of length 0
df_empty(df) == df.rows = 0 \/ Len(df.columns) = 0

----------------------------------------------------------------------------
(* Messages: a format string with the values put into it *)

Msg(text, column, listed, available) ==
    [text |-> text, column |-> column, listed |-> listed, available |-> available]

Plain(text) == Msg(text, <<>>, FALSE, <<>>)

NoMsg == Plain("")

----------------------------------------------------------------------------
(* Validator: utils.py validate_dataset, lines 104-133 *)

\* a slip of lines 115-131: the target column is looked at before the rows
validate_dataset_target_first(df, target_column) ==
    IF df_empty(df)
    THEN [is_valid |-> FALSE, message |-> Plain("Dataset is empty")]
    ELSE IF truthy(target_column) /\ ~has_column(df, target_column.name)
    THEN [is_valid |-> FALSE,
          message  |-> Msg("Target column '{}' not found in dataset",
                           target_column.name, FALSE, <<>>)]
    ELSE IF df.rows < MinRows
    THEN [is_valid |-> FALSE,
          message  |-> Plain("Dataset has too few rows for meaningful ML (minimum 10)")]
    ELSE IF truthy(target_column) /\ df.stats[target_column.name].hasna
    THEN [is_valid |-> FALSE,
          message  |-> Msg("Target column '{}' contains missing values",
                           target_column.name, FALSE, <<>>)]
    ELSE [is_valid |-> TRUE, message |-> NoMsg]

validate_dataset(df, target_column) ==
    IF df_empty(df)
    THEN [is_valid |-> FALSE, message |-> Plain("Dataset is empty")]
    ELSE IF df.rows < MinRows
    THEN [is_valid |-> FALSE,
          message  |-> Plain("Dataset has too few rows for meaningful ML (minimum 10)")]
    ELSE IF truthy(target_column) /\ ~has_column(df, target_column.name)
    THEN [is_valid |-> FALSE,
          message  |-> Msg("Target column '{}' not found in dataset",
                           target_column.name, FALSE, <<>>)]
    ELSE IF truthy(target_column) /\ df.stats[target_column.name].hasna
    THEN [is_valid |-> FALSE,
          message  |-> Msg("Target column '{}' contains missing values",
                           target_column.name, FALSE, <<>>)]
    ELSE [is_valid |-> TRUE, message |-> NoMsg]

----------------------------------------------------------------------------
(* Task-Type Inferencer *)

\* a slip of line 157: the distinct-values-per-row test is left out, which
\* makes rule 2 the same as rule 1
infer_task_type_rule1(df, target_column) ==
    IF df.stats[target_column].numeric /\ df.stats[target_column].nunique > UniqueLimit
    THEN "regression"
    ELSE "classification"

\* rule 2, utils.py infer_task_type, lines 135-160
\* (unique_count / len(target) > 0.05, in integers: 100 * unique > 5 * rows)
infer_task_type(df, target_column) ==
    LET target       == df.stats[target_column]
        is_numeric   == target.numeric
        unique_count == target.nunique
    IN  IF is_numeric /\ unique_count > UniqueLimit /\ 100 * unique_count > 5 * df.rows
        THEN "regression"
        ELSE "classification"

\* a slip of lines 41-48: rule 2 in the place of rule 1
orchestrator_infer_rule2(df, target) == infer_task_type(df, target)

\* rule 1, agents.py train_tabular_model, lines 41-48
orchestrator_infer(df, target) ==
    LET unique_values == df.stats[target].nunique
    IN  IF unique_values <= UniqueLimit /\ df.stats[target].numeric THEN "classification"
        ELSE IF unique_values > UniqueLimit /\ df.stats[target].numeric THEN "regression"
        ELSE "classification"

----------------------------------------------------------------------------
(* The AutoML library, as the Orchestrator sees it.  What its calls return *)
(* or raise is the library's: a run of the pipeline is the call that       *)
(* raises (if any), the class of the best model that compare_models        *)
(* returned and the score grid that pull() returned.                       *)

\* the highest score in a score grid
MaxScore == 1

PipelineSteps == <<"setup", "compare_models", "tune_model", "save_model", "pull">>

ModelClasses == {"LinearRegression", "Ridge"}

\* a score grid's top row: its numeric columns with their values, and its
\* text columns (the comparison grid has a "Model" column)
ScoreGrids ==
    { [values |-> v, text |-> tx] :
        v \in UNION { { [Accuracy |-> sc, AUC |-> 0], [MAE |-> 0, RMSE |-> sc] } :
                        sc \in 0..MaxScore },
        tx \in {{}, {"Model"}} }

NoClass == ""
NoGrid  == [values |-> <<>>, text |-> {}]

\* the runs of the pipeline: a call raises, or all return
LibraryOutcomes ==
    { [fail_at |-> f, best |-> NoClass, grid |-> NoGrid] : f \in {"setup", "compare_models"} }
    \cup { [fail_at |-> f, best |-> b, grid |-> NoGrid] :
             f \in {"tune_model", "save_model", "pull"}, b \in ModelClasses }
    \cup { [fail_at |-> "none", best |-> b, grid |-> g] : b \in ModelClasses, g \in ScoreGrids }

grid_columns(grid) == DOMAIN grid.values \cup grid.text

step_index(step) == CHOOSE i \in 1..Len(PipelineSteps) : PipelineSteps[i] = step

\* the pipeline calls that were made
steps_made(lib) ==
    IF lib.fail_at = "none" THEN PipelineSteps
    ELSE SubSeq(PipelineSteps, 1, step_index(lib.fail_at))

\* the call `step` returned
step_done(lib, step) ==
    lib.fail_at = "none" \/ step_index(step) < step_index(lib.fail_at)

----------------------------------------------------------------------------
(* Model identifiers and the entries of MODELS_DIR *)

\* f"{task_type}_{model_name}_{timestamp}", and what the library appends
ModelName(task, cls, ts, ext) == [task |-> task, cls |-> cls, ts |-> ts, ext |-> ext]

\* Python's "" where a model name is expected
EmptyName == ModelName("", "", 0, "")

\* str.lower() on a task type
task_lower(t) == IF t = "Classification" THEN "classification" ELSE t

\* "classification" in model_name.lower(): none of the class names, timestamps
\* and extensions holds the word, so it is in the name iff it is in its task part
name_has_classification(name) == task_lower(name.task) = "classification"

\* the library's save_model(model, model_name) writes the file model_name + ".pkl"
save_model(entries, name) ==
    LET file == [name |-> [name EXCEPT !.ext = ".pkl"], is_dir |-> FALSE]
    IN  {e \in entries : e.name # file.name} \cup {file}

----------------------------------------------------------------------------
(* Training Orchestrator: agents.py train_tabular_model, lines 19-111 *)

\* agents.py lines 7-8: both libraries are star-imported, classification first;
\* setup, compare_models, tune_model, save_model and pull name the functions of
\* the library imported last
StarImports == <<"classification", "regression">>

star_bound_library == StarImports[Len(StarImports)]

\* the names agents.py binds at module level that lines 60-64 look up:
\* no import or assignment of the module binds the name "regression"
regression_name_bound == FALSE

Returned(value, task, library, steps, written) ==
    [kind |-> "return", value |-> value, task_type |-> task, library |-> library,
     steps |-> steps, written |-> written]

Raised(message, task, library, steps, written) ==
    [kind |-> "raise", value |-> [exception |-> message], task_type |-> task,
     library |-> library, steps |-> steps, written |-> written]

\* lines 95-107: the success result
success_result(name, task, target, metric, grid) ==
    [success       |-> TRUE,
     model_name    |-> name,
     model_path    |-> name,
     task_type     |-> task,
     target_column |-> target,
     metric        |-> metric,
     performance   |->
        [metric    |-> metric,
         has_value |-> metric \in grid_columns(grid),
         value     |-> IF metric \in DOMAIN grid.values THEN grid.values[metric] ELSE 0,
         additional_metrics |-> [c \in DOMAIN grid.values \ {metric} |-> grid.values[c]]],
     leaderboard   |-> grid]

\* float() of a text cell raises ValueError
assembly_raises(metric, grid) == grid.text # {}

\* a slip of line 38: the available columns are left out of the message
target_error_unlisted(target, columns) ==
    Msg("Target column '{}' not found in dataset", target, FALSE, <<>>)

\* line 38: the error result for a target that is no column of the dataset
target_error(target, columns) ==
    Msg("Target column '{}' not found in dataset. Available columns: {}",
        target, TRUE, columns)

\* lines 68-107: one run of the pipeline, with the functions of `library`
pipeline_run(task, library, target, metric, lib, t) ==
    LET name    == ModelName(task, lib.best, t, "")
        written == IF step_done(lib, "save_model") THEN {name} ELSE {}
    IN  IF lib.fail_at # "none"
        THEN Raised(Plain(lib.fail_at), task, library, steps_made(lib), written)
        ELSE IF assembly_raises(metric, lib.grid)
        THEN Raised(Plain("could not convert string to float"), task, library,
                    steps_made(lib), written)
        ELSE Returned(success_result(name, task, target, metric, lib.grid), task,
                      library, steps_made(lib), written)

\* what the pipeline can do
run_pipeline(task, library, target, metric, t) ==
    { pipeline_run(task, library, target, metric, lib, t) : lib \in LibraryOutcomes }

\* a slip of lines 37-38 and 66: the target and the task type are looked at
\* only once the pipeline has run
orchestrator_body_late_checks(data, target, task_type, metric, t) ==
    IF ~data.readable
    THEN { Raised(Plain("read_csv"), task_type, "none", <<>>, {}) }
    ELSE LET task == IF task_type = "None" /\ has_column(data.df, target)
                     THEN orchestrator_infer(data.df, target)
                     ELSE task_type
             runs == run_pipeline(task, star_bound_library, target, metric, t)
         IN  IF ~has_column(data.df, target)
             THEN { Returned([error |-> target_error(target, data.df.columns)],
                             task, o.library, o.steps, o.written) : o \in runs }
             ELSE IF task_lower(task) \notin {"classification", "regression"}
             THEN { Returned([error |-> Msg("Unsupported task type: {}. Use 'classification' or 'regression'.",
                                            <<>>, FALSE, <<>>)],
                             task, o.library, o.steps, o.written) : o \in runs }
             ELSE runs

\* lines 33-107: the body of the try block; the set of its possible outcomes
orchestrator_body(data, target, task_type, metric, t) ==
    IF ~data.readable
    THEN { Raised(Plain("read_csv"), task_type, "none", <<>>, {}) }
    ELSE IF ~has_column(data.df, target)
    THEN { Returned([error |-> target_error(target, data.df.columns)],
                    task_type, "none", <<>>, {}) }
    ELSE LET task == IF task_type = "None" THEN orchestrator_infer(data.df, target)
                     ELSE task_type
         IN  IF task_lower(task) = "classification"
             THEN run_pipeline(task, star_bound_library, target, metric, t)
             ELSE IF task_lower(task) = "regression"
             THEN IF regression_name_bound
                  THEN run_pipeline(task, "regression", target, metric, t)
                  ELSE { Raised(Plain("name 'regression' is not defined"), task, "none",
                                <<>>, {}) }
             ELSE { Returned([error |-> Msg("Unsupported task type: {}. Use 'classification' or 'regression'.",
                                            <<>>, FALSE, <<>>)],
                             task, "none", <<>>, {}) }

\* a slip of lines 32 and 109: a call made outside the try block
except_nothing(outcome) == outcome

\* lines 109-111: except Exception as e: return {"error": str(e)}
except_exception(outcome) ==
    IF outcome.kind = "raise"
    THEN [outcome EXCEPT !.kind = "return", !.value = [error |-> outcome.value.exception]]
    ELSE outcome

train_tabular_model(data, target, task_type, metric, t) ==
    { except_exception(o) : o \in orchestrator_body(data, target, task_type, metric, t) }

\* MODELS_DIR after the call
models_after(entries, outcome) ==
    IF outcome.written = {} THEN entries
    ELSE save_model(entries, CHOOSE n \in outcome.written : TRUE)

----------------------------------------------------------------------------
(* Result Normalizer: utils.py format_model_results, lines 206-233 *)

\* dict.get(key, default) and "key in dict"
has_key(d, key) == key \in DOMAIN d
dict_get(d, key, default) == IF has_key(d, key) THEN d[key] ELSE default

format_model_results(results) ==
    LET formatted ==
          [model_name    |-> dict_get(results, "model_name", EmptyName),
           model_path    |-> dict_get(results, "model_path", EmptyName),
           task_type     |-> dict_get(results, "task_type", ""),
           target_column |-> dict_get(results, "target_column", <<>>),
           metric        |-> dict_get(results, "metric", ""),
           metric_value  |-> dict_get(results, "metric_value", 0)]
    IN  IF has_key(results, "leaderboard")
        THEN [model_name    |-> formatted.model_name,
              model_path    |-> formatted.model_path,
              task_type     |-> formatted.task_type,
              target_column |-> formatted.target_column,
              metric        |-> formatted.metric,
              metric_value  |-> formatted.metric_value,
              leaderboard   |-> results.leaderboard]
        ELSE formatted

----------------------------------------------------------------------------
(* Model Registry: utils.py get_model_path and list_available_models *)

path_exists(entries, name) == \E e \in entries : e.name = name

\* lines 162-177: the path, or HTTPException(status_code=404)
get_model_path(entries, model_name) ==
    IF ~path_exists(entries, model_name)
    THEN [found |-> FALSE, status_code |-> 404,
          detail |-> Msg("Model '{}' not found", <<>>, FALSE, <<>>)]
    ELSE [found |-> TRUE, status_code |-> 200, detail |-> NoMsg]

\* lines 179-204
list_available_models(entries) ==
    { [name |-> e.name,
       type |-> IF name_has_classification(e.name) THEN "classification" ELSE "regression",
       path |-> e.name] : e \in {d \in entries : d.is_dir} }

----------------------------------------------------------------------------
(* The Orchestrator call a request led to *)

NoCall ==
    [called |-> FALSE, by |-> "none", readable |-> FALSE, target |-> <<>>,
     task_type |-> "None", metric |-> "", outcome |-> <<>>]

Calls(by, data, target, task_type, metric, t) ==
    { [called |-> TRUE, by |-> by, readable |-> data.readable, target |-> target,
       task_type |-> task_type, metric |-> metric, outcome |-> o] :
         o \in train_tabular_model(data, target, task_type, metric, t) }

----------------------------------------------------------------------------
(* The LLM agent: agent.chat(query) raises, replies without using its tool, *)
(* or calls its tool train_tabular_model with arguments of its choosing     *)

AgentOutcomes ==
    { [kind |-> "raise", reads_upload |-> FALSE, target |-> <<>>],
      [kind |-> "reply", reads_upload |-> FALSE, target |-> <<>>] }
    \cup { [kind |-> "tool", reads_upload |-> b, target |-> col_y] : b \in BOOLEAN }

\* a path the agent made up: no file is there
Unreadable(data) == [data EXCEPT !.readable = FALSE]

----------------------------------------------------------------------------
(* agents.py process_user_query, lines 144-203 *)

\* the metric parameter's default, agents.py line 19
DefaultMetric == "Accuracy"

Answered(value, call, agent_called, found) ==
    [value |-> value, call |-> call, agent_called |-> agent_called, intent |-> found]

\* lines 186-199: the agent handles the query
agent_chat(data, found, agent, t) ==
    IF agent.kind = "raise"
    THEN { Answered([error |-> Plain("agent.chat")], NoCall, TRUE, found) }
    ELSE IF agent.kind = "reply"
    THEN { Answered([response |-> "reply", tool_output |-> <<>>], NoCall, TRUE, found) }
    ELSE { Answered([response |-> "reply", tool_output |-> call.outcome.value],
                    call, TRUE, found) :
             call \in Calls("agent", IF agent.reads_upload THEN data ELSE Unreadable(data),
                            agent.target, "None", DefaultMetric, t) }

\* a slip of line 178: every query is left to the agent
process_user_query_agent_only(q, data, t) ==
    UNION { agent_chat(data, extract_intent(q), agent, t) : agent \in AgentOutcomes }

\* the set of the possible results
process_user_query(q, data, t) ==
    LET found == extract_intent(q)
    IN  IF truthy(found.target)
        THEN { Answered([response |-> "Trained a model", tool_output |-> call.outcome.value],
                        call, FALSE, found) :
                 call \in Calls("process_user_query", data, found.target.name,
                                found.task_type, DefaultMetric, t) }
        ELSE UNION { agent_chat(data, found, agent, t) : agent \in AgentOutcomes }

----------------------------------------------------------------------------
(* Training entry point: main.py train_model, lines 82-158 *)

JSONResponse(status, message) ==
    [status |-> status, error |-> message, result |-> <<>>]

HTTPException(status, message) ==
    [status |-> status, error |-> message, result |-> <<>>]

\* the Validator was not run
NotChecked == [run |-> FALSE, is_valid |-> FALSE, message |-> NoMsg]

Checked(result) == [run |-> TRUE, is_valid |-> result.is_valid, message |-> result.message]

Handled(response, checked, call, agent_called, found, asked) ==
    [kind |-> "return", response |-> response, checked |-> checked, call |-> call,
     agent_called |-> agent_called, intent |-> found, query |-> asked]

Thrown(response) ==
    [kind |-> "raise", response |-> response, checked |-> NotChecked, call |-> NoCall,
     agent_called |-> FALSE, intent |-> NoIntent, query |-> <<>>]

AllowedExtensions == {".csv", ".xlsx", ".xls"}

\* lines 146-154: the result is checked for an error and normalized
answer(result) ==
    IF has_key(result, "error")
    THEN JSONResponse(400, result.error)
    ELSE [status |-> 200, error |-> NoMsg, result |-> format_model_results(result)]

\* lines 94-154: the body of the try block; the set of its possible outcomes
train_model_body(r, t) ==
    IF r.file = "none"
    THEN { Handled(JSONResponse(400, Plain("No dataset file provided. Please upload a CSV or Excel file.")),
                   NotChecked, NoCall, FALSE, NoIntent, <<>>) }
    ELSE IF r.file \notin AllowedExtensions
    THEN { Thrown(HTTPException(400, Plain("Only CSV and Excel files are supported"))) }
    ELSE IF ~r.data.readable
    THEN { Thrown(HTTPException(500, Plain("Error loading dataset"))) }
    ELSE LET checked == validate_dataset(r.data.df, r.target_column)
         IN  IF ~checked.is_valid
             THEN { Handled(JSONResponse(400, checked.message), Checked(checked), NoCall,
                            FALSE, NoIntent, <<>>) }
             ELSE IF truthy(r.target_column)
             THEN LET task == IF r.task_type = "None"
                              THEN infer_task_type(r.data.df, r.target_column.name)
                              ELSE r.task_type
                  IN  { Handled(answer(call.outcome.value), Checked(checked), call, FALSE,
                                NoIntent, <<>>) :
                          call \in Calls("train_model", r.data, r.target_column.name, task,
                                         r.metric, t) }
             ELSE { Handled(answer(done.value), Checked(checked), done.call,
                            done.agent_called, done.intent, r.prompt) :
                      done \in process_user_query(r.prompt, r.data, t) }

\* lines 156-158: except Exception as e: raise HTTPException(500, str(e))
train_model_except(handled) ==
    IF handled.kind = "raise"
    THEN [handled EXCEPT !.kind = "return",
                         !.response = HTTPException(500, handled.response.error)]
    ELSE handled

train_model(r, t) == { train_model_except(h) : h \in train_model_body(r, t) }

----------------------------------------------------------------------------
(* Prediction entry point: main.py predict, lines 160-219 *)

\* the library's load_model(path) reads the file path + ".pkl"
pkl_of(name) == [name EXCEPT !.ext = IF name.ext = "" THEN ".pkl" ELSE ".pkl.pkl"]

PredictOutcomes == {"ok", "load_model", "predict_model"}

\* lines 168-215: the body of the try block
predict_body(entries, model_name, lib) ==
    LET looked == get_model_path(entries, model_name)
    IN  IF ~looked.found
        THEN [kind |-> "raise", response |-> HTTPException(looked.status_code, looked.detail)]
        ELSE IF ~path_exists(entries, pkl_of(model_name)) \/ lib = "load_model"
        THEN [kind |-> "raise", response |-> HTTPException(500, Plain("load_model"))]
        ELSE IF lib = "predict_model"
        THEN [kind |-> "raise", response |-> HTTPException(500, Plain("predict_model"))]
        ELSE [kind |-> "return",
              response |->
                [status |-> 200, error |-> NoMsg,
                 result |-> [model_name |-> model_name,
                             model_type |-> IF name_has_classification(model_name)
                                            THEN "classification" ELSE "regression"]]]

\* lines 217-219: except Exception as e: raise HTTPException(500, str(e))
predict_except(handled) ==
    IF handled.kind = "raise"
    THEN [kind |-> "return", response |-> HTTPException(500, handled.response.error)]
    ELSE handled

predict(entries, model_name, lib) == predict_except(predict_body(entries, model_name, lib))

----------------------------------------------------------------------------
(* The service *)

\* the number of entries of MODELS_DIR beyond which no training is started
MaxModels == 1
\* the last second of the clock
MaxTime == 1

FileKinds  == {"none", ".csv", ".txt"}
TaskTypes  == {"None", "classification", "Classification", "regression", "clustering"}
Metrics    == {"Accuracy", "RMSE"}

p_predict_y       == kw_predict \o <<" ", "y">>
p_predict_n       == kw_predict \o <<" ", "n", ".">>
p_classify_y      == kw_classification \o <<" ">> \o kw_predict \o <<" ", "y">>
p_regression_y    == kw_regression \o <<" ">> \o kw_predict \o <<" ", "y">>
p_no_target       == <<"x", " ", "y">>
p_predict_dot     == kw_predict \o <<" ", ".">>

RequestPrompts ==
    {p_predict_y, p_predict_n, p_classify_y, p_regression_y, p_no_target, p_predict_dot}

\* an upload that is no dataset, and the datasets
NoData == [readable |-> FALSE, df |-> [rows |-> 0, columns |-> <<>>, stats |-> <<>>]]

\* what was uploaded: nothing, a file that is no CSV or Excel file, or a CSV
\* file that holds a dataset or cannot be parsed
Uploads(file) ==
    IF file \in AllowedExtensions
    THEN {NoData} \cup {[readable |-> TRUE, df |-> df] : df \in Datasets}
    ELSE {NoData}

\* a request names its target column, with any task type, or leaves the
\* target to its prompt
ExplicitRequests(file) ==
    [op : {"train"}, file : {file}, data : Uploads(file),
     prompt : {p_predict_y, p_no_target},
     target_column : {Target(col_y), Target(col_n)}, task_type : TaskTypes, metric : Metrics]

PromptRequests(file) ==
    [op : {"train"}, file : {file}, data : Uploads(file), prompt : RequestPrompts,
     target_column : {NoTarget}, task_type : {"None", "clustering"}, metric : Metrics]

TrainRequests ==
    UNION {ExplicitRequests(file) \cup PromptRequests(file) : file \in FileKinds}

NoRequest == [op |-> "none"]

NoResponse == [status |-> 0, error |-> NoMsg, result |-> <<>>]

Init ==
    /\ models = {}
    /\ now = 0
    /\ pc = "idle"
    /\ req = NoRequest
    /\ orc = NoCall
    /\ resp = NoResponse
    /\ query = <<>>
    /\ intent = NoIntent

\* POST /train
Train(r) ==
    /\ pc = "idle"
    /\ Cardinality(models) < MaxModels
    /\ \E handled \in train_model(r, now) :
           /\ pc' = "done"
           /\ req' = r @@ [checked |-> handled.checked,
                           agent_called |-> handled.agent_called]
           /\ orc' = handled.call
           /\ resp' = handled.response
           /\ query' = handled.query
           /\ intent' = handled.intent
           /\ models' = IF handled.call.called
                        THEN models_after(models, handled.call.outcome)
                        ELSE models
    /\ UNCHANGED now

\* the names a caller asks a prediction for
PredictNames ==
    {e.name : e \in models} \cup {[e.name EXCEPT !.ext = ""] : e \in models}
    \cup {ModelName("classification", "Ridge", 0, "")}

\* POST /predict
Predict(model_name, lib) ==
    /\ pc = "idle"
    /\ pc' = "done"
    /\ req' = [op |-> "predict", model_name |-> model_name]
    /\ resp' = predict(models, model_name, lib).response
    /\ UNCHANGED <<models, now, orc, query, intent>>

\* GET /models
ListModels ==
    /\ pc = "idle"
    /\ pc' = "done"
    /\ req' = [op |-> "models"]
    /\ resp' = [status |-> 200, error |-> NoMsg, result |-> list_available_models(models)]
    /\ UNCHANGED <<models, now, orc, query, intent>>

\* the response has been sent
Respond ==
    /\ pc = "done"
    /\ pc' = "idle"
    /\ req' = NoRequest
    /\ orc' = NoCall
    /\ resp' = NoResponse
    /\ query' = <<>>
    /\ intent' = NoIntent
    /\ UNCHANGED <<models, now>>

\* a second passes
Tick ==
    /\ pc = "idle"
    /\ now < MaxTime
    /\ now' = now + 1
    /\ UNCHANGED <<models, pc, req, orc, resp, query, intent>>

Next ==
    \/ \E r \in TrainRequests : Train(r)
    \/ \E n \in PredictNames, lib \in PredictOutcomes : Predict(n, lib)
    \/ ListModels
    \/ Respond
    \/ Tick

Spec == Init /\ [][Next]_vars

----------------------------------------------------------------------------
(* Specification of the Intent Extractor alone: it is run on every prompt  *)

InitExtract ==
    /\ models = {}
    /\ now = 0
    /\ pc = "idle"
    /\ req = NoRequest
    /\ orc = NoCall
    /\ resp = NoResponse
    /\ query = <<>>
    /\ intent = NoIntent

\* the extractor is called with a prompt
Extract ==
    /\ pc = "idle"
    /\ pc' = "extracted"
    /\ \E q \in Prompts :
        /\ query' = q
        /\ intent' = extract_intent(q)
    /\ UNCHANGED <<models, now, req, orc, resp>>

\* its caller has taken the result
ExtractReturn ==
    /\ pc = "extracted"
    /\ pc' = "idle"
    /\ query' = <<>>
    /\ intent' = NoIntent
    /\ UNCHANGED <<models, now, req, orc, resp>>

NextExtract ==
    \/ Extract
    \/ ExtractReturn

SpecExtract == InitExtract /\ [][NextExtract]_vars

----------------------------------------------------------------------------
(* Properties of the service (Spec) *)

TrainDone   == pc = "done" /\ req.op = "train"
PredictDone == pc = "done" /\ req.op = "predict"

\* the result of the Orchestrator call made for the request
orc_result == orc.outcome.value
orc_failed == has_key(orc_result, "error")
orc_succeeded == has_key(orc_result, "success")

\* the last pipeline call the Orchestrator made
last_step == orc.outcome.steps[Len(orc.outcome.steps)]

\* the status of the response for a failure of no particular kind, main.py line 219
InternalError == 500
\* the status get_model_path gives an unknown model, utils.py line 175
NotFound == 404

\* C1: every call of the Training Orchestrator returns: a success result when
\* every step returned, and otherwise an error result whose message is that of
\* the step that failed (reading the dataset, a pipeline call, or assembling
\* the result); no exception leaves the call.
C1_OrchestratorNeverRaises ==
    orc.called =>
        /\ orc.outcome.kind = "return"
        /\ orc_failed \/ orc_succeeded
        /\ ~orc.readable => (orc_failed /\ orc_result.error.text = "read_csv")
        /\ (orc_failed /\ orc.outcome.steps # <<>>) =>
              orc_result.error.text \in {last_step, "could not convert string to float"}
        /\ orc_succeeded => orc.outcome.steps = PipelineSteps

\* C1 witness: tune_model raised, and the call returned an error result with
\* its message
C1_Witness ==
    /\ orc.called
    /\ orc.outcome.kind = "return"
    /\ orc.outcome.steps = <<"setup", "compare_models", "tune_model">>
    /\ orc_failed
    /\ orc_result.error.text = "tune_model"

\* C2 (as claimed): whenever the Orchestrator call made for a training request,
\* on the explicit-target path or on the prompt path, returned an error result,
\* the entry point answers with an error that carries that message, and not
\* with a normalized result.
C2_FailedTrainingIsAnError ==
    (TrainDone /\ orc.called /\ orc.by \in {"train_model", "process_user_query"}
       /\ orc_failed)
    => (resp.status # 200 /\ resp.error = orc_result.error)

\* C3 (as claimed): after a successful training for a metric that is a column
\* of the leaderboard, the metric_value of the normalized result is the value
\* of that metric in the leaderboard's top row.
C3_MetricValueIsTopRow ==
    (TrainDone /\ orc.called /\ orc.by = "train_model" /\ orc_succeeded
       /\ orc.metric \in DOMAIN orc_result.leaderboard.values
       /\ resp.status = 200)
    => resp.result.metric_value = orc_result.leaderboard.values[orc.metric]

\* the target named to the Validator is no column of the dataset
validator_target_absent ==
    /\ TrainDone /\ req.checked.run
    /\ truthy(req.target_column)
    /\ ~has_column(req.data.df, req.target_column.name)

\* the target given to the Orchestrator is no column of the dataset it read
orchestrator_target_absent ==
    /\ orc.called /\ orc.readable
    /\ ~has_column(req.data.df, orc.target)

names_and_lists(message, target, columns) ==
    /\ message.column = target
    /\ message.listed
    /\ message.available = columns

\* C4 (as claimed): for a target that is no column of the dataset, the Validator
\* and the Orchestrator both fail with a message that names the missing column
\* and lists the available columns.  (Stated for the datasets of at least 10
\* rows, which the Validator does not turn away for their size.)
C4_BothNameAndList ==
    /\ (validator_target_absent /\ req.data.df.rows >= MinRows) =>
          /\ ~req.checked.is_valid
          /\ names_and_lists(req.checked.message, req.target_column.name,
                             req.data.df.columns)
    /\ orchestrator_target_absent =>
          /\ orc_failed
          /\ names_and_lists(orc_result.error, orc.target, req.data.df.columns)

\* C4 (amended): for a target that is no column of the dataset, the
\* Orchestrator fails with a message that names the missing column and lists
\* the available columns; the Validator, given a dataset of at least 10 rows
\* and a non-empty target name, fails with a message that names the missing
\* column and lists no columns.
C4_OrchestratorListsValidatorNames ==
    /\ (validator_target_absent /\ req.data.df.rows >= MinRows) =>
          /\ ~req.checked.is_valid
          /\ req.checked.message.text = "Target column '{}' not found in dataset"
          /\ req.checked.message.column = req.target_column.name
          /\ ~req.checked.message.listed
    /\ orchestrator_target_absent =>
          /\ orc_failed
          /\ orc.outcome.steps = <<>>
          /\ names_and_lists(orc_result.error, orc.target, req.data.df.columns)

\* C4 witness: on the prompt path the Validator passed the dataset, and the
\* Orchestrator was given a target that is no column and named it
C4_Witness ==
    /\ TrainDone
    /\ req.checked.run /\ req.checked.is_valid
    /\ orchestrator_target_absent
    /\ orc_result.error.column = col_n
    /\ orc_result.error.available = <<col_x, col_y>>

RowCountMessage == "Dataset has too few rows for meaningful ML (minimum 10)"

\* C5 (as claimed): a dataset with fewer than 10 rows, 0 rows included, fails
\* validation with the row-count message, whatever its target.
C5_FewRowsRowCountMessage ==
    (TrainDone /\ req.checked.run /\ req.data.df.rows < MinRows)
    => (~req.checked.is_valid /\ req.checked.message.text = RowCountMessage)

\* C5 (amended): a dataset with 1 to 9 rows fails validation with the row-count
\* message, whatever its columns and its target; a dataset with 0 rows fails
\* with the message "Dataset is empty".
C5_FewRowsOrEmpty ==
    (TrainDone /\ req.checked.run /\ req.data.df.rows < MinRows)
    => /\ ~req.checked.is_valid
       /\ req.checked.message.text =
             IF req.data.df.rows = 0 THEN "Dataset is empty" ELSE RowCountMessage

\* C5 witness: nine rows and a target that is no column: the row-count message
C5_Witness ==
    /\ TrainDone /\ req.checked.run
    /\ req.data.df.rows = MinRows - 1
    /\ req.target_column = Target(col_n)
    /\ req.checked.message.text = RowCountMessage

\* the Orchestrator was given no task type and a target that is a column
orchestrator_infers ==
    /\ orc.called /\ orc.readable
    /\ orc.task_type = "None"
    /\ has_column(req.data.df, orc.target)

\* C6: when the Orchestrator is given no task type, the task kind it resolves
\* is classification for a numeric target of at most 10 distinct values,
\* regression for a numeric target of more than 10 distinct values, and
\* classification for a target that is not numeric.
C6_RuleOne ==
    orchestrator_infers =>
        LET target == req.data.df.stats[orc.target]
        IN  /\ (target.numeric /\ target.nunique <= 10) =>
                  orc.outcome.task_type = "classification"
            /\ (target.numeric /\ target.nunique > 10) =>
                  orc.outcome.task_type = "regression"
            /\ ~target.numeric => orc.outcome.task_type = "classification"

\* C6 witness: a numeric target of 11 distinct values among 220 rows, where
\* rule 2 says classification, is resolved to regression
C6_Witness ==
    /\ orchestrator_infers
    /\ req.data.df.rows = ManyRows
    /\ req.data.df.stats[orc.target].numeric
    /\ req.data.df.stats[orc.target].nunique = UniqueLimit + 1
    /\ orc.outcome.task_type = "regression"

\* C7 (as claimed): right after the Orchestrator persisted a model and returned
\* its identifier, get_model_path finds that identifier and
\* list_available_models has an entry of that name whose type is the task kind
\* in the identifier.
C7_RoundTrip ==
    (TrainDone /\ orc.called /\ orc_succeeded)
    => LET id == orc_result.model_name
       IN  /\ get_model_path(models, id).found
           /\ \E m \in list_available_models(models) :
                 m.name = id /\ m.type = task_lower(id.task)

\* C8 (as claimed): a prediction request for a name that is no entry of
\* MODELS_DIR is answered with a not-found status, which differs from the
\* status of the other failures.
C8_NotFoundIsDistinct ==
    (PredictDone /\ ~path_exists(models, req.model_name))
    => (resp.status = NotFound /\ resp.status # InternalError)

\* the request passed the Validator, so the entry point goes on to train
routed == TrainDone /\ req.checked.run /\ req.checked.is_valid

\* the Intent Extractor was run on the request's prompt
extractor_invoked == query # <<>>

\* the Intent Extractor found a target: a name, and not the empty text
target_resolved == intent.target.given /\ intent.target.name # <<>>

\* C11: a validated request that gives a target column is trained by a direct
\* call of the Orchestrator, with neither the Intent Extractor nor the agent
\* invoked; one that gives none has its prompt run through the Intent
\* Extractor, and the agent is invoked if and only if the extractor leaves the
\* target unresolved; with the target resolved the Orchestrator is called
\* directly with that target and the agent is not invoked.
C11_Routing ==
    routed =>
        IF req.target_column.given
        THEN /\ ~extractor_invoked
             /\ ~req.agent_called
             /\ orc.called /\ orc.by = "train_model"
             /\ orc.target = req.target_column.name
        ELSE /\ extractor_invoked /\ query = req.prompt
             /\ req.agent_called <=> ~target_resolved
             /\ target_resolved =>
                   /\ orc.called /\ orc.by = "process_user_query"
                   /\ orc.target = intent.target.name
             /\ orc.called => orc.by = (IF target_resolved THEN "process_user_query"
                                        ELSE "agent")

\* C11 witness: a prompt whose target token is only punctuation leaves the
\* target unresolved, and the agent is invoked and calls the Orchestrator
C11_Witness ==
    /\ routed /\ ~req.target_column.given
    /\ intent.target.given /\ ~target_resolved
    /\ req.agent_called
    /\ orc.called /\ orc.by = "agent"

\* the pipeline steps in the order C12 gives them: configure, compare, tune,
\* persist, leaderboard retrieval
ClaimedOrder == <<"setup", "compare_models", "tune_model", "save_model", "pull">>

is_prefix(s, t) == Len(s) <= Len(t) /\ \A i \in 1..Len(s) : s[i] = t[i]

\* the task kind the Orchestrator ended up with is neither of the two it knows
orchestrator_task_unsupported ==
    /\ orc.called /\ orc.readable
    /\ has_column(req.data.df, orc.target)
    /\ task_lower(orc.outcome.task_type) \notin {"classification", "regression"}

\* the steps the Orchestrator call made are the first ones of the fixed order,
\* a model file is written only by the persist step, and a call with a
\* missing target or an unsupported task type returns an error result having
\* made no step and written no file
C12_CallInOrder ==
    orc.called =>
        /\ is_prefix(orc.outcome.steps, ClaimedOrder)
        /\ orc.outcome.written # {} =>
              \E i \in 1..Len(orc.outcome.steps) : orc.outcome.steps[i] = "save_model"
        /\ (orchestrator_target_absent \/ orchestrator_task_unsupported) =>
              /\ orc_failed
              /\ orc.outcome.steps = <<>>
              /\ orc.outcome.written = {}

\* a request whose Orchestrator call had a missing target or an unsupported
\* task type leaves MODELS_DIR as it was
C12_NoFileOnRejection ==
    (pc = "idle" /\ pc' = "done"
        /\ (orchestrator_target_absent \/ orchestrator_task_unsupported)')
    => models' = models

\* C12: in every Orchestrator call the pipeline steps happen in the order
\* configure, compare, tune, persist, leaderboard retrieval, each at most once
\* and only after the earlier ones returned; with the target column missing or
\* the task type unsupported the call returns an error result, no step is
\* made and no model file is created.
C12_PipelineOrder == []C12_CallInOrder /\ [][C12_NoFileOnRejection]_vars

\* C12 witness: a call that made all five steps and wrote its model file
C12_Witness ==
    /\ TrainDone /\ orc.called
    /\ orc.outcome.steps = ClaimedOrder
    /\ orc.outcome.written # {}
    /\ models # {}

\* a call with an unsupported task type was rejected with no step made
C12_RejectedWitness ==
    /\ TrainDone /\ orchestrator_task_unsupported
    /\ orc_failed /\ orc.outcome.steps = <<>> /\ models = {}

\* the Orchestrator call was made by the entry point's own code: by
\* train_model for a given target, by process_user_query for an extracted one
issued_by_entry_point ==
    TrainDone /\ orc.called /\ orc.by \in {"train_model", "process_user_query"}

\* C13 (as claimed): every Orchestrator call the training entry point issues,
\* on either path, comes after the Validator passed the dataset, and its
\* target is a column of the dataset that holds no missing value.
C13_TrainingRequestInvariant ==
    issued_by_entry_point =>
        /\ req.checked.run /\ req.checked.is_valid
        /\ has_column(req.data.df, orc.target)
        /\ ~req.data.df.stats[orc.target].hasna

\* C14 (as claimed): the metric the Orchestrator is given to sort the
\* comparison by and to tune for is the metric of the request, on the
\* explicit-target path and on the prompt path alike.
C14_RequestedMetric ==
    issued_by_entry_point => orc.metric = req.metric

\* the library whose primitives the Orchestrator call drove
library_used == orc.outcome.library

\* the Orchestrator call got past its checks of the target and the task type
\* with the given task kind
orchestrator_trains(kind) ==
    /\ TrainDone /\ orc.called /\ orc.readable
    /\ has_column(req.data.df, orc.target)
    /\ task_lower(orc.outcome.task_type) = kind

\* C15 (as claimed): the Orchestrator drives the primitives of the library of
\* the chosen task kind, the classification library's for classification and
\* the regression library's for regression, and a regression request with an
\* existing target reaches the configure step.
C15_LibraryOfTaskKind ==
    /\ orchestrator_trains("classification") =>
          /\ orc.outcome.steps # <<>>
          /\ library_used = "classification"
    /\ orchestrator_trains("regression") =>
          /\ orc.outcome.steps # <<>>
          /\ library_used = "regression"

\* rule 1 and rule 2 as C16 gives them, for a column of a dataset
rule_one(df, c) ==
    IF df.stats[c].numeric /\ df.stats[c].nunique > 10 THEN "regression"
    ELSE "classification"

rule_two(df, c) ==
    IF /\ df.stats[c].numeric
       /\ df.stats[c].nunique > 10
       /\ 100 * df.stats[c].nunique > 5 * df.rows
    THEN "regression"
    ELSE "classification"

\* the request named its target and left the task type out
explicit_without_task ==
    /\ routed
    /\ req.target_column.given
    /\ req.task_type = "None"

\* C16: for a request with a target column and no task type the Orchestrator
\* is given the task kind of rule 2 (regression iff the target is numeric, has
\* more than 10 distinct values and more than 0.05 distinct values per row) and
\* so never applies its own rule 1; rule 1 is applied only to calls of the
\* prompt path, and by process_user_query only when the prompt names no task
\* type; and the two rules differ exactly on numeric columns of more than 10
\* distinct values and at most 0.05 distinct values per row.
C16_RuleTwoOnExplicitPath ==
    /\ explicit_without_task =>
          /\ orc.called /\ orc.by = "train_model"
          /\ orc.task_type = rule_two(req.data.df, req.target_column.name)
          /\ ~orchestrator_infers
    /\ (TrainDone /\ orchestrator_infers) =>
          /\ ~req.target_column.given
          /\ orc.by \in {"process_user_query", "agent"}
          /\ orc.by = "process_user_query" => intent.task_type = "None"
          /\ orc.outcome.task_type = rule_one(req.data.df, orc.target)
    /\ (TrainDone /\ req.data.readable) =>
          \A i \in 1..Len(req.data.df.columns) :
              LET c  == req.data.df.columns[i]
                  st == req.data.df.stats[c]
              IN  (rule_one(req.data.df, c) # rule_two(req.data.df, c))
                  <=> (st.numeric /\ st.nunique > 10 /\ 100 * st.nunique <= 5 * req.data.df.rows)

\* C16 witness: a numeric target of 11 distinct values among ManyRows rows,
\* named by the request with no task type, is trained as classification,
\* where rule 1 says regression
C16_Witness ==
    /\ explicit_without_task
    /\ req.data.df.rows = ManyRows
    /\ req.data.df.stats[req.target_column.name].numeric
    /\ req.data.df.stats[req.target_column.name].nunique = UniqueLimit + 1
    /\ orc.called /\ orc.task_type = "classification"
    /\ rule_one(req.data.df, req.target_column.name) = "regression"

----------------------------------------------------------------------------
(* Properties of the Intent Extractor (SpecExtract) *)

\* Python's s.rstrip(chars): chars removed from the end
str_rstrip(s, chars) ==
    LET keep == {i \in 1..Len(s) : s[i] \notin chars}
    IN  IF keep = {} THEN <<>>
        ELSE SubSeq(s, 1, CHOOSE i \in keep : \A k \in keep : i >= k)

\* the target as C9 states it: the first token of the text that follows the
\* first "predict" (in any case), without its trailing punctuation and spaces
claimed_target(q) ==
    LET at == str_find(str_lower(q), kw_predict, 1)
    IN  IF at = 0 THEN NoTarget
        ELSE LET words == str_words(SubSeq(q, at + Len(kw_predict), Len(q)))
             IN  IF words = <<>> THEN NoTarget
                 ELSE Target(str_rstrip(words[1], StripChars))

\* C9 (as claimed): the extracted target is unresolved for a prompt without
\* "predict", and otherwise the first whitespace-delimited token of the text
\* after the first "predict", stripped of trailing punctuation and spaces.
C9_TargetIsFirstToken ==
    pc = "extracted" => intent.target = claimed_target(query)

\* the prompt mentions the word, in any case
mentions(q, word) ==
    \E i \in 1..Len(q) :
        /\ i + Len(word) - 1 <= Len(q)
        /\ \A j \in 1..Len(word) : char_lower(q[i + j - 1]) = word[j]

\* C10: the extracted task type is classification if the prompt mentions
\* "classification"; otherwise regression if it mentions "regression" or
\* "predict value"; otherwise none.  (The words are looked for in the
\* lower-cased prompt.)
C10_TaskTypeFirstMatch ==
    pc = "extracted" =>
        /\ mentions(query, kw_classification) => intent.task_type = "classification"
        /\ (~mentions(query, kw_classification)
              /\ (mentions(query, kw_regression) \/ mentions(query, kw_predict_value)))
           => intent.task_type = "regression"
        /\ (~mentions(query, kw_classification) /\ ~mentions(query, kw_regression)
              /\ ~mentions(query, kw_predict_value))
           => intent.task_type = "None"

\* C10 witness: a prompt that mentions regression before classification is
\* given the task type classification
C10_Witness ==
    /\ pc = "extracted"
    /\ query = kw_regression \o <<" ">> \o kw_classification
    /\ intent.task_type = "classification"

====
